---- MODULE Spec2Model ----
(***************************************************************************)
(* PDF question-answering service (FastAPI backend).                       *)
(*                                                                         *)
(* State: the two module-level bindings named vector_store (the one of    *)
(* utils.py, written by load_vector_store and read by save_vector_store,   *)
(* and the one of main.py, created by `from utils import *` and rebound by *)
(* the endpoints through `global vector_store`), the persisted index       *)
(* directory, the scratch directory, and the position and locals of each   *)
(* running /documents handler.  A handler is a coroutine: it gives up      *)
(* control only at `await file.close()`.                                   *)
(***************************************************************************)
EXTENDS Integers, Sequences, FiniteSets, TLC

VARIABLES
    proc,                \* "imported": modules executed, startup hook pending; "up": serving
    embedding_model,     \* utils.embedding_model is not None
    GROQ_API_KEY,        \* utils.GROQ_API_KEY is a non-empty string
    main_vector_store,   \* main.vector_store
    utils_vector_store,  \* utils.vector_store
    index_dir_exists,    \* FAISS_INDEX_PATH exists
    index_file,          \* what FAISS_INDEX_PATH holds
    uploaded_pdfs,       \* names of the files in UPLOAD_DIR
    pc,                  \* per handler: "idle", "ready" (request read, endpoint not yet
                         \* called) or "loop" (suspended in await file.close())
    locals,              \* per handler: the locals of upload_documents_endpoint
    event                \* the response returned by the last step, if it returned one

vars == <<proc, embedding_model, GROQ_API_KEY, main_vector_store, utils_vector_store,
          index_dir_exists, index_file, uploaded_pdfs, pc, locals, event>>

----------------------------------------------------------------------------
(* Bounds *)

MaxFiles == 2        \* files per /documents request
MaxDocs == 2         \* chunks an index may hold before no further request is drawn
ChunkSize == 3       \* chunk_size of the splitter, scaled down from 1000
ChunkOverlap == 1    \* chunk_overlap of the splitter, scaled down from 200

Handlers == {1, 2}

\* the handlers that take requests when requests are served one after the other
Serial == {1}

----------------------------------------------------------------------------
(* Text: strings are sequences of one-character strings *)

Whitespace == {" ", "\n"}

Lower(c) ==
    CASE c = "P" -> "p"
      [] c = "D" -> "d"
      [] c = "F" -> "f"
      [] OTHER -> c

\* str.lower()
LowerStr(s) == [i \in DOMAIN s |-> Lower(s[i])]

\* str.endswith(suffix)
EndsWith(s, suffix) ==
    /\ Len(s) >= Len(suffix)
    /\ SubSeq(s, Len(s) - Len(suffix) + 1, Len(s)) = suffix

RECURSIVE LStrip(_)
LStrip(s) == IF s # <<>> /\ Head(s) \in Whitespace THEN LStrip(Tail(s)) ELSE s

RECURSIVE RStrip(_)
RStrip(s) ==
    IF s # <<>> /\ s[Len(s)] \in Whitespace THEN RStrip(SubSeq(s, 1, Len(s) - 1)) ELSE s

\* str.strip()
Strip(s) == RStrip(LStrip(s))

DotPdf == <<".", "p", "d", "f">>

\* the filename tests without the extension test of main.py 45
IsPdfName_AnyName(filename) == filename # <<>>

\* main.py 41-49: the file passes both filename tests
IsPdfName(filename) == filename # <<>> /\ EndsWith(LowerStr(filename), DotPdf)

----------------------------------------------------------------------------
(* Uploaded files.  A file is its filename, whether writing it to the     *)
(* scratch path succeeds, whether pypdf can open it, its pages (a page     *)
(* either yields text or makes extract_text raise), and whether the        *)
(* splitter returns.                                                       *)

Page(t) == [ok |-> TRUE, text |-> t]
BadPage == [ok |-> FALSE, text |-> <<>>]

File(name, save, reader, pages, split) ==
    [filename |-> name, save_ok |-> save, reader_ok |-> reader, pages |-> pages,
     split_ok |-> split]

GoodLong == File(<<"b", ".", "P", "D", "F">>, TRUE, TRUE,
                  <<Page(<<"s", "t">>), Page(<<>>), Page(<<"u", "v">>)>>, TRUE)
Blank == File(<<"c", ".", "p", "d", "f">>, TRUE, TRUE, <<Page(<<>>), Page(<<" ">>)>>, TRUE)
NotPdf == File(<<"d", ".", "t", "x", "t">>, TRUE, TRUE, <<Page(<<"x">>)>>, TRUE)
NoName == File(<<>>, TRUE, TRUE, <<Page(<<"x">>)>>, TRUE)
SaveFails == File(<<"e", ".", "p", "d", "f">>, FALSE, TRUE, <<Page(<<"x">>)>>, TRUE)
Unreadable == File(<<"f", ".", "p", "d", "f">>, TRUE, FALSE, <<>>, TRUE)
Truncated == File(<<"g", ".", "p", "d", "f">>, TRUE, TRUE,
                  <<Page(<<"k">>), BadPage, Page(<<"m">>)>>, TRUE)
SplitFails == File(<<"h", ".", "p", "d", "f">>, TRUE, TRUE, <<Page(<<"x">>)>>, FALSE)

Files == {GoodLong, Blank, NotPdf, NoName, SaveFails, Unreadable, Truncated, SplitFails}

\* the requests: FastAPI's File(...) rejects a request without files before the handler
Requests == UNION {[1..n -> Files] : n \in 1..MaxFiles}

----------------------------------------------------------------------------
(* utils.py: extraction and splitting *)

\* utils.py 104-109: the page loop; a page that raises ends the loop with the text so far
RECURSIVE ReadPages(_, _)
ReadPages(pages, full_text) ==
    IF pages = <<>> THEN full_text
    ELSE IF ~Head(pages).ok THEN full_text
    ELSE IF Head(pages).text # <<>>
         THEN ReadPages(Tail(pages), full_text \o Head(pages).text \o <<"\n">>)
         ELSE ReadPages(Tail(pages), full_text)

\* utils.py 93-114
extract_text_from_pdf(f) ==
    Strip(IF f.reader_ok THEN ReadPages(f.pages, <<>>) ELSE <<>>)

\* the windows of ChunkSize characters, each starting ChunkSize - ChunkOverlap after the last
RECURSIVE Windows(_, _)
Windows(text, start) ==
    IF start + ChunkSize - 1 >= Len(text)
    THEN <<SubSeq(text, start, Len(text))>>
    ELSE <<SubSeq(text, start, start + ChunkSize - 1)>>
         \o Windows(text, start + ChunkSize - ChunkOverlap)

RECURSIVE StripAll(_)
StripAll(chunks) ==
    IF chunks = <<>> THEN <<>>
    ELSE IF Strip(Head(chunks)) = <<>> THEN StripAll(Tail(chunks))
    ELSE <<Strip(Head(chunks))>> \o StripAll(Tail(chunks))

\* text_splitter.split_text (utils.py 52-56): chunks of at most chunk_size characters,
\* neighbours overlapping by chunk_overlap, each stripped, empty ones dropped
split_text(text) == IF text = <<>> THEN <<>> ELSE StripAll(Windows(text, 1))

\* main.py 73-79
LangchainDocument(chunk, filename) == [page_content |-> chunk, source_filename |-> filename]

\* main.py 53-86: the chunks one loop iteration appends for a file that passed the
\* filename tests; <<>> on `continue` and when the except clause is taken
FileChunks(f) ==
    IF ~f.save_ok THEN <<>>
    ELSE LET raw_text == extract_text_from_pdf(f) IN
         IF raw_text = <<>> THEN <<>>
         ELSE IF ~f.split_ok THEN <<>>
         ELSE LET text_chunks == split_text(raw_text) IN
              IF text_chunks = <<>> THEN <<>>
              ELSE [k \in 1..Len(text_chunks) |->
                        LangchainDocument(text_chunks[k], f.filename)]

\* main.py 40-49: the first file at or after position i that passes the filename tests
RECURSIVE NextPdf(_, _)
NextPdf(files, i) ==
    IF i > Len(files) THEN i
    ELSE IF IsPdfName(files[i].filename) THEN i
    ELSE NextPdf(files, i + 1)

----------------------------------------------------------------------------
(* Index handles and the persisted directory *)

None == [set |-> FALSE, docs |-> <<>>]
FAISS(docs) == [set |-> TRUE, docs |-> docs]

NoIndexFile == [state |-> "absent", docs |-> <<>>]
CorruptIndexFile == [state |-> "corrupt", docs |-> <<>>]
IndexFile(docs) == [state |-> "ok", docs |-> docs]

\* an index persisted by an earlier deployment
LegacyDocs == <<LangchainDocument(<<"o">>, <<"o", ".", "p", "d", "f">>)>>

----------------------------------------------------------------------------
(* Responses *)

Response(op, h, status, detail, cause) ==
    [op |-> op, h |-> h, status |-> status, detail |-> detail, cause |-> cause,
     documents_indexed |-> 0, total_chunks_generated |-> 0,
     save |-> "none", llm_called |-> FALSE, question |-> <<>>]

NoEvent == Response("none", 0, 0, "", "")

EmptyLocals ==
    [files |-> <<>>, i |-> 1, processed_files_count |-> 0,
     total_chunks_generated_for_session |-> 0, all_langchain_documents |-> <<>>,
     written |-> {}]

\* utils.py 25-56: the state once utils and main are imported
Init ==
    /\ proc = "imported"
    /\ embedding_model \in BOOLEAN
    /\ GROQ_API_KEY \in BOOLEAN
    /\ main_vector_store = None
    /\ utils_vector_store = None
    /\ index_dir_exists = TRUE
    /\ index_file \in {NoIndexFile, CorruptIndexFile, IndexFile(LegacyDocs)}
    /\ uploaded_pdfs = {}
    /\ pc = [h \in Handlers |-> "idle"]
    /\ locals = [h \in Handlers |-> EmptyLocals]
    /\ event = NoEvent

----------------------------------------------------------------------------
(* Startup *)

\* utils.py 58-81: the value load_vector_store binds to utils.vector_store
load_vector_store(model, dir, file) ==
    IF ~model THEN None
    ELSE IF dir /\ file.state # "absent"
         THEN IF file.state = "ok" THEN FAISS(file.docs) ELSE None
         ELSE None

\* main.py 18-21
startup_event ==
    /\ proc = "imported"
    /\ proc' = "up"
    /\ utils_vector_store' = load_vector_store(embedding_model, index_dir_exists, index_file)
    /\ event' = Response("startup", 0, 0, "", "")
    /\ UNCHANGED <<embedding_model, GROQ_API_KEY, main_vector_store, index_dir_exists,
                   index_file, uploaded_pdfs, pc, locals>>

----------------------------------------------------------------------------
(* POST /documents *)

\* utils.py 83-91: what save_vector_store leaves on disk and prints, given the handle it
\* reads and whether save_local returns (ok) or raises, leaving the old files (torn =
\* FALSE) or a half-written index (torn = TRUE)
save_vector_store(store, dir, file, ok, torn) ==
    IF ~store.set THEN [dir |-> dir, file |-> file, save |-> "skipped"]
    ELSE IF ok THEN [dir |-> TRUE, file |-> IndexFile(store.docs), save |-> "saved"]
    ELSE IF torn THEN [dir |-> TRUE, file |-> CorruptIndexFile, save |-> "error"]
    ELSE [dir |-> dir, file |-> file, save |-> "error"]

\* the ways save_local can end when save_vector_store calls it
SaveOutcomes(store) ==
    IF store.set
    THEN {[ok |-> TRUE, torn |-> FALSE], [ok |-> FALSE, torn |-> FALSE],
          [ok |-> FALSE, torn |-> TRUE]}
    ELSE {[ok |-> TRUE, torn |-> FALSE]}

\* the index update that builds a new index from the request's chunks whatever the handle
\* holds, in place of main.py 109-112
UpdateIndex_AlwaysCreate(store, docs) == FAISS(docs)

\* the index update that replaces the chunks the index already holds for the filenames
\* of the request, in place of the add_documents of main.py 112
UpdateIndex_ReplaceSameSource(store, docs) ==
    FAISS(SelectSeq(store.docs,
                    LAMBDA d : \A k \in DOMAIN docs :
                                  docs[k].source_filename # d.source_filename) \o docs)

\* main.py 105-112: the handle after the index is created or extended
UpdateIndex(store, docs) ==
    IF ~store.set THEN FAISS(docs) ELSE FAISS(store.docs \o docs)

\* the success response that reports the size of the index in place of the chunks of
\* the request (main.py 119-123)
UploadSuccess_IndexSize(h, cnt, tot, save) ==
    [Response("upload", h, 200, "processed", "") EXCEPT
        !.documents_indexed = cnt,
        !.total_chunks_generated = Len(main_vector_store'.docs),
        !.save = save]

\* main.py 119-123
UploadSuccess(h, cnt, tot, save) ==
    [Response("upload", h, 200, "processed", "") EXCEPT
        !.documents_indexed = cnt, !.total_chunks_generated = tot, !.save = save]

\* main.py 96-103: the response when no chunk was accumulated
NothingIndexed(h, cnt, nfiles) ==
    IF cnt = 0 /\ nfiles > 0
    THEN Response("upload", h, 400, "no_valid_pdf", "")
    ELSE Response("upload", h, 200, "nothing_suitable", "")

\* the loop iteration with `break` where main.py 65, 71 and 85-87 go on to the next file
Iterate_StopAtFailure(h, files, j, cnt, tot, docs, written) ==
    LET f == files[j]
        temp_file_path == f.filename
        opened == IF f.save_ok THEN uploaded_pdfs \cup {temp_file_path} ELSE uploaded_pdfs
        chunks == FileChunks(f)
    IN  /\ uploaded_pdfs' = opened \ {temp_file_path}
        /\ locals' = [locals EXCEPT ![h] =
                [files |-> files, i |-> IF chunks # <<>> THEN j + 1 ELSE Len(files) + 1,
                 processed_files_count |-> IF chunks # <<>> THEN cnt + 1 ELSE cnt,
                 total_chunks_generated_for_session |-> tot + Len(chunks),
                 all_langchain_documents |-> docs \o chunks,
                 written |-> written \cup {temp_file_path}]]
        /\ pc' = [pc EXCEPT ![h] = "loop"]
        /\ event' = NoEvent
        /\ UNCHANGED <<main_vector_store, index_dir_exists, index_file>>

\* the loop iteration with the removal of the scratch file at the end of the try block
\* instead of in the finally clause of main.py 88-92
Iterate_RemoveOnSuccessOnly(h, files, j, cnt, tot, docs, written) ==
    LET f == files[j]
        temp_file_path == f.filename
        opened == IF f.save_ok THEN uploaded_pdfs \cup {temp_file_path} ELSE uploaded_pdfs
        chunks == FileChunks(f)
    IN  /\ uploaded_pdfs' = IF chunks # <<>> THEN opened \ {temp_file_path} ELSE opened
        /\ locals' = [locals EXCEPT ![h] =
                [files |-> files, i |-> j + 1,
                 processed_files_count |-> IF chunks # <<>> THEN cnt + 1 ELSE cnt,
                 total_chunks_generated_for_session |-> tot + Len(chunks),
                 all_langchain_documents |-> docs \o chunks,
                 written |-> written \cup {temp_file_path}]]
        /\ pc' = [pc EXCEPT ![h] = "loop"]
        /\ event' = NoEvent
        /\ UNCHANGED <<main_vector_store, index_dir_exists, index_file>>

\* main.py 51-94: one loop iteration for files[j], which passed the filename tests, up to
\* the await of file.close()
Iterate(h, files, j, cnt, tot, docs, written) ==
    LET f == files[j]
        temp_file_path == f.filename
        opened == IF f.save_ok THEN uploaded_pdfs \cup {temp_file_path} ELSE uploaded_pdfs
        chunks == FileChunks(f)
    IN  /\ uploaded_pdfs' = opened \ {temp_file_path}
        /\ locals' = [locals EXCEPT ![h] =
                [files |-> files, i |-> j + 1,
                 processed_files_count |-> IF chunks # <<>> THEN cnt + 1 ELSE cnt,
                 total_chunks_generated_for_session |-> tot + Len(chunks),
                 all_langchain_documents |-> docs \o chunks,
                 written |-> written \cup {temp_file_path}]]
        /\ pc' = [pc EXCEPT ![h] = "loop"]
        /\ event' = NoEvent
        /\ UNCHANGED <<main_vector_store, index_dir_exists, index_file>>

\* main.py 96-123: after the loop
Finish(h, files, cnt, tot, docs, written) ==
    /\ locals' = [locals EXCEPT ![h] = EmptyLocals]
    /\ pc' = [pc EXCEPT ![h] = "idle"]
    /\ UNCHANGED uploaded_pdfs
    /\ IF docs = <<>>
       THEN /\ event' = NothingIndexed(h, cnt, Len(files))
            /\ UNCHANGED <<main_vector_store, index_dir_exists, index_file>>
       ELSE \/ \* FAISS.from_documents or add_documents raises
               /\ event' = Response("upload", h, 500, "store_update_failed", "embed_error")
               /\ UNCHANGED <<main_vector_store, index_dir_exists, index_file>>
            \/ \E outcome \in SaveOutcomes(utils_vector_store) :
                  LET saved == save_vector_store(utils_vector_store, index_dir_exists,
                                                 index_file, outcome.ok, outcome.torn)
                  IN  /\ main_vector_store' = UpdateIndex(main_vector_store, docs)
                      /\ index_dir_exists' = saved.dir
                      /\ index_file' = saved.file
                      /\ event' = UploadSuccess(h, cnt, tot, saved.save)

\* the handler from position i of its loop to its next await or to its return
RunFrom(h, files, i, cnt, tot, docs, written) ==
    LET j == NextPdf(files, i) IN
    IF j <= Len(files)
    THEN Iterate(h, files, j, cnt, tot, docs, written)
    ELSE Finish(h, files, cnt, tot, docs, written)

RECURSIVE SumChunks(_)
SumChunks(files) ==
    IF files = <<>> THEN 0 ELSE Len(FileChunks(Head(files))) + SumChunks(Tail(files))

\* main.py 25-26: FastAPI reads the multipart body into `files` and schedules the endpoint
receive_upload(h, files) ==
    /\ proc = "up"
    /\ pc[h] = "idle"
    /\ Len(main_vector_store.docs)
          + SumChunks(SelectSeq(files, LAMBDA f : IsPdfName(f.filename))) <= MaxDocs
    /\ pc' = [pc EXCEPT ![h] = "ready"]
    /\ locals' = [locals EXCEPT ![h] = [EmptyLocals EXCEPT !.files = files]]
    /\ event' = NoEvent
    /\ UNCHANGED <<proc, embedding_model, GROQ_API_KEY, main_vector_store,
                   utils_vector_store, index_dir_exists, index_file, uploaded_pdfs>>

\* main.py 26-94: the endpoint runs from its first line to its first await or its return
upload_documents_endpoint(h) ==
    /\ proc = "up"
    /\ pc[h] = "ready"
    /\ UNCHANGED <<proc, embedding_model, GROQ_API_KEY, utils_vector_store>>
    /\ IF ~embedding_model
       THEN /\ event' = Response("upload", h, 500, "embedding_uninit", "")
            /\ locals' = [locals EXCEPT ![h] = EmptyLocals]
            /\ pc' = [pc EXCEPT ![h] = "idle"]
            /\ UNCHANGED <<main_vector_store, index_dir_exists, index_file, uploaded_pdfs>>
       ELSE RunFrom(h, locals[h].files, 1, 0, 0, <<>>, {})

\* main.py 94: the handler resumes after await file.close()
upload_resume(h) ==
    /\ proc = "up"
    /\ pc[h] = "loop"
    /\ UNCHANGED <<proc, embedding_model, GROQ_API_KEY, utils_vector_store>>
    /\ LET L == locals[h] IN
       RunFrom(h, L.files, L.i, L.processed_files_count,
               L.total_chunks_generated_for_session, L.all_langchain_documents, L.written)

----------------------------------------------------------------------------
(* POST /question *)

Questions == {<<>>, <<" ", "\n">>, <<"w", "h", "y">>}

\* the response without the blank-question test of main.py 139-140
QuestionResponse_NoBlankCheck(question, store, key, llm_ok) ==
    IF ~store.set THEN Response("question", 0, 400, "no_index", "")
    ELSE IF ~key THEN Response("question", 0, 500, "no_key", "")
    ELSE IF llm_ok
         THEN [Response("question", 0, 200, "answer", "") EXCEPT !.llm_called = TRUE]
         ELSE [Response("question", 0, 500, "qa_failed", "llm_error") EXCEPT
                    !.llm_called = TRUE]

\* the response with the credential test of main.py 136-137 made first
QuestionResponse_KeyFirst(question, store, key, llm_ok) ==
    IF ~key THEN Response("question", 0, 500, "no_key", "")
    ELSE IF ~store.set THEN Response("question", 0, 400, "no_index", "")
    ELSE IF Strip(question) = <<>> THEN Response("question", 0, 400, "blank", "")
    ELSE IF llm_ok
         THEN [Response("question", 0, 200, "answer", "") EXCEPT !.llm_called = TRUE]
         ELSE [Response("question", 0, 500, "qa_failed", "llm_error") EXCEPT
                    !.llm_called = TRUE]

\* main.py 132-209: the response to a question
QuestionResponse(question, store, key, llm_ok) ==
    IF ~store.set THEN Response("question", 0, 400, "no_index", "")
    ELSE IF ~key THEN Response("question", 0, 500, "no_key", "")
    ELSE IF Strip(question) = <<>> THEN Response("question", 0, 400, "blank", "")
    ELSE IF llm_ok
         THEN [Response("question", 0, 200, "answer", "") EXCEPT !.llm_called = TRUE]
         ELSE [Response("question", 0, 500, "qa_failed", "llm_error") EXCEPT
                    !.llm_called = TRUE]

\* the ways the retrieval chain can end, where the endpoint gets as far as calling it
LlmOutcomes(question, store, key) ==
    IF store.set /\ key /\ Strip(question) # <<>> THEN BOOLEAN ELSE {TRUE}

\* main.py 126-209
ask_question_endpoint(question) ==
    /\ proc = "up"
    /\ \E llm_ok \in LlmOutcomes(question, main_vector_store, GROQ_API_KEY) :
          event' = [QuestionResponse(question, main_vector_store, GROQ_API_KEY, llm_ok)
                        EXCEPT !.question = question]
    /\ UNCHANGED <<proc, embedding_model, GROQ_API_KEY, main_vector_store,
                   utils_vector_store, index_dir_exists, index_file, uploaded_pdfs,
                   pc, locals>>

----------------------------------------------------------------------------
(* POST /reset_index *)

\* the directory after a reset that lacks the os.makedirs of main.py 238
ResetDir_NoMkdir(dir, file, rm_ok, left) ==
    IF dir
    THEN IF rm_ok
         THEN [dir |-> TRUE, file |-> NoIndexFile,
               response |-> Response("reset", 0, 200, "reset", "")]
         ELSE [dir |-> TRUE, file |-> left,
               response |-> Response("reset", 0, 500, "reset_failed", "rmtree_error")]
    ELSE [dir |-> FALSE, file |-> NoIndexFile,
          response |-> Response("reset", 0, 200, "nothing_to_reset", "")]

\* main.py 223-238: the directory after reset; rmtree returns (rm_ok) or raises having
\* removed nothing (left = the old file) or part of the index (left = a corrupt one)
ResetDir(dir, file, rm_ok, left) ==
    IF dir
    THEN IF rm_ok
         THEN [dir |-> TRUE, file |-> NoIndexFile,
               response |-> Response("reset", 0, 200, "reset", "")]
         ELSE [dir |-> TRUE, file |-> left,
               response |-> Response("reset", 0, 500, "reset_failed", "rmtree_error")]
    ELSE [dir |-> TRUE, file |-> NoIndexFile,
          response |-> Response("reset", 0, 200, "nothing_to_reset", "")]

\* the ways shutil.rmtree can end
RmtreeOutcomes(dir, file) ==
    IF ~dir THEN {[ok |-> TRUE, left |-> NoIndexFile]}
    ELSE {[ok |-> TRUE, left |-> NoIndexFile], [ok |-> FALSE, left |-> file]}
         \cup (IF file.state = "absent" THEN {}
               ELSE {[ok |-> FALSE, left |-> CorruptIndexFile]})

\* main.py 219-220
ResetHandle(store) == None

\* main.py 212-241
reset_index_endpoint ==
    /\ proc = "up"
    /\ main_vector_store' = ResetHandle(main_vector_store)
    /\ \E outcome \in RmtreeOutcomes(index_dir_exists, index_file) :
          LET r == ResetDir(index_dir_exists, index_file, outcome.ok, outcome.left) IN
             /\ index_dir_exists' = r.dir
             /\ index_file' = r.file
             /\ event' = r.response
    /\ UNCHANGED <<proc, embedding_model, GROQ_API_KEY, utils_vector_store,
                   uploaded_pdfs, pc, locals>>

----------------------------------------------------------------------------
(* Environment *)

\* the index directory is removed from outside the process (the case main.py 235-238
\* provides for)
remove_index_dir ==
    /\ proc = "up"
    /\ index_dir_exists
    /\ index_dir_exists' = FALSE
    /\ index_file' = NoIndexFile
    /\ event' = NoEvent
    /\ UNCHANGED <<proc, embedding_model, GROQ_API_KEY, main_vector_store,
                   utils_vector_store, uploaded_pdfs, pc, locals>>

\* main.py 246-260, utils.py 25-56: the server process is restarted and the modules are
\* imported again; the directories survive
restart ==
    /\ proc = "up"
    /\ proc' = "imported"
    /\ embedding_model' \in BOOLEAN
    /\ main_vector_store' = None
    /\ utils_vector_store' = None
    /\ index_dir_exists' = TRUE
    /\ pc' = [h \in Handlers |-> "idle"]
    /\ locals' = [h \in Handlers |-> EmptyLocals]
    /\ event' = NoEvent
    /\ UNCHANGED <<GROQ_API_KEY, index_file, uploaded_pdfs>>

Next ==
    \/ startup_event
    \/ \E h \in Serial : \E files \in Requests : receive_upload(h, files)
    \/ \E h \in Serial : upload_documents_endpoint(h)
    \/ \E h \in Serial : upload_resume(h)
    \/ \E question \in Questions : ask_question_endpoint(question)
    \/ reset_index_endpoint
    \/ remove_index_dir
    \/ restart

Spec == Init /\ [][Next]_vars

----------------------------------------------------------------------------
(* Concurrent ingestion: the event loop interleaves two upload handlers at their awaits *)

\* the two clients upload disjoint sets of files
ConcFiles(h) == IF h = 1 THEN {GoodLong, SaveFails, NotPdf} ELSE {Truncated, Blank}

ConcRequests(h) == UNION {[1..n -> ConcFiles(h)] : n \in 1..MaxFiles}

NextConc ==
    \/ startup_event
    \/ \E h \in Handlers : \E files \in ConcRequests(h) : receive_upload(h, files)
    \/ \E h \in Handlers : upload_documents_endpoint(h)
    \/ \E h \in Handlers : upload_resume(h)

SpecConc == Init /\ [][NextConc]_vars

----------------------------------------------------------------------------
(* Vocabulary of the properties *)

\* handler h returns a response in this step
Returns(h) ==
    /\ pc[h] # "idle"
    /\ pc'[h] = "idle"
    /\ event'.op = "upload"
    /\ event'.h = h

\* the filename is present and ends in .pdf, whatever the case of its letters
HasPdfExtension(filename) ==
    /\ Len(filename) >= 4
    /\ filename[Len(filename) - 3] = "."
    /\ filename[Len(filename) - 2] \in {"p", "P"}
    /\ filename[Len(filename) - 1] \in {"d", "D"}
    /\ filename[Len(filename)] \in {"f", "F"}

\* the files of a request that pass the filename tests
ValidFiles(files) == SelectSeq(files, LAMBDA f : HasPdfExtension(f.filename))

\* the number of files that contribute at least one chunk
RECURSIVE CountIndexed(_)
CountIndexed(files) ==
    IF files = <<>> THEN 0
    ELSE (IF FileChunks(Head(files)) # <<>> THEN 1 ELSE 0) + CountIndexed(Tail(files))

\* the status a request gets when the index update does not raise
ExpectedStatus(files) ==
    IF SumChunks(ValidFiles(files)) = 0
    THEN NothingIndexed(0, 0, Len(files)).status
    ELSE 200

\* handler h returns in this step, and not with a server error of the embedding
\* function (uninitialized, or raising during the index update)
ReturnsFromLoop(h) ==
    /\ Returns(h)
    /\ embedding_model
    /\ event'.detail # "store_update_failed"

\* extraction raises: pypdf cannot open the file, or a page raises
ExtractionFails(f) == ~f.reader_ok \/ \E k \in DOMAIN f.pages : ~f.pages[k].ok

IsClientError(status) == status >= 400 /\ status <= 499

IsBlankQuestion(question) == \A k \in DOMAIN question : question[k] \in Whitespace

HoldsLegacyChunk(docs) == \E k \in DOMAIN docs : docs[k] = LegacyDocs[1]

----------------------------------------------------------------------------
(* Properties *)

\* C1: after an ingestion request that returns success with documents_indexed > 0, the
\* persisted index directory holds exactly the content of the in-memory index that the
\* query operation reads.
C1_PersistedIsQueriedIndex ==
    (event.op = "upload" /\ event.status = 200 /\ event.documents_indexed > 0)
        => /\ index_dir_exists
           /\ index_file = IndexFile(main_vector_store.docs)

\* C2: after process startup the handle that ingest and query consult is set to the
\* persisted index if and only if the embedding function initialized, the persisted
\* index file exists and loading did not throw; otherwise it is unset.
C2_HandleSetIffLoaded ==
    event.op = "startup"
        => IF embedding_model /\ index_dir_exists /\ index_file.state = "ok"
           THEN main_vector_store = FAISS(index_file.docs)
           ELSE main_vector_store = None

\* C3: one index instance is live and reset clears it entirely: after a reset no chunk
\* loaded or ingested before it is in any in-process index, and the operation that
\* follows the reset writes no such chunk back to the persisted directory.
C3_ResetClearsEveryIndex ==
    /\ [](event.op = "reset" => (~main_vector_store.set /\ ~utils_vector_store.set))
    /\ [][(event.op = "reset" /\ ~HoldsLegacyChunk(index_file.docs))
            => ~HoldsLegacyChunk(index_file'.docs)]_vars

\* the file raises nowhere and has no text to extract
IsTextless(f) ==
    /\ f.save_ok /\ f.reader_ok /\ f.split_ok
    /\ \A k \in DOMAIN f.pages : f.pages[k].ok /\ Strip(f.pages[k].text) = <<>>

\* C4: an ingestion request whose files all have a valid .pdf name but yield no text is
\* answered with the non-error empty result, documents_indexed = 0 and
\* total_chunks_generated = 0.
C4_TextlessIsEmptyResult ==
    [][\A h \in Handlers :
          (/\ Returns(h)
           /\ embedding_model
           /\ \A k \in DOMAIN locals[h].files :
                 /\ HasPdfExtension(locals[h].files[k].filename)
                 /\ IsTextless(locals[h].files[k]))
          => /\ event'.status = 200
             /\ event'.documents_indexed = 0
             /\ event'.total_chunks_generated = 0]_vars

\* C9: if writing the index to the persisted directory fails during an ingestion
\* request, the request is answered with a server error carrying the cause, never with
\* the success response.
C9_SaveFailureIsServerError ==
    (event.op = "upload" /\ event.save = "error")
        => (event.status = 500 /\ event.cause # "")

\* the handler's locals show no trace of a file that fails the filename tests
NoBadNameTouched(L) ==
    /\ \A name \in L.written : HasPdfExtension(name)
    /\ \A k \in DOMAIN L.all_langchain_documents :
          HasPdfExtension(L.all_langchain_documents[k].source_filename)

\* C5 (as claimed): files with a missing or non-.pdf filename are not counted, contribute
\* no chunk, create no scratch file, and do not make the request raise: the request is
\* answered as the request without them would be.
C5_BadNamesNeverRaise ==
    [][\A h \in Handlers :
          /\ NoBadNameTouched(locals'[h])
          /\ ReturnsFromLoop(h) =>
                LET rest == ValidFiles(locals[h].files) IN
                /\ event'.status = ExpectedStatus(rest)
                /\ event'.status = 200 =>
                      /\ event'.documents_indexed = CountIndexed(rest)
                      /\ event'.total_chunks_generated = SumChunks(rest)]_vars

\* C5 (amended): files with a missing or non-.pdf filename are not counted, contribute no
\* chunk and create no scratch file; the request is answered as the request without
\* them would be when a file is left, and with the 400 client error when every file of
\* the request is such a file.
C5_BadNamesSkipped ==
    [][\A h \in Handlers :
          /\ NoBadNameTouched(locals'[h])
          /\ ReturnsFromLoop(h) =>
                LET rest == ValidFiles(locals[h].files) IN
                /\ event'.status = IF rest = <<>> THEN 400 ELSE ExpectedStatus(rest)
                /\ event'.status = 200 =>
                      /\ event'.documents_indexed = CountIndexed(rest)
                      /\ event'.total_chunks_generated = SumChunks(rest)]_vars

\* a request with a nameless file before a good one has been through the loop: one file
\* counted, one scratch file written
C5_Witness ==
    /\ pc[1] = "loop"
    /\ locals[1].files = <<NoName, GoodLong>>
    /\ locals[1].i = 3
    /\ locals[1].processed_files_count = 1
    /\ locals[1].written = {GoodLong.filename}

\* C6 (as claimed): a query whose question is empty or whitespace-only returns a client
\* error in every state, whatever the index and the LLM credential.
C6_BlankIsClientError ==
    (event.op = "question" /\ IsBlankQuestion(event.question))
        => IsClientError(event.status)

\* C6 (amended): a query whose question is empty or whitespace-only returns a client
\* error when no index is set or the LLM credential is configured; with an index set
\* and no credential it returns the server configuration error.  It never reaches
\* retrieval or the LLM.
C6_BlankIsRejected ==
    (event.op = "question" /\ IsBlankQuestion(event.question))
        => /\ ~event.llm_called
           /\ IF main_vector_store.set /\ ~GROQ_API_KEY
              THEN event.status = 500 /\ event.detail = "no_key"
              ELSE IsClientError(event.status)

\* a whitespace-only question was rejected as blank: index set, credential configured
C6_Witness ==
    /\ event.op = "question"
    /\ event.question = <<" ", "\n">>
    /\ main_vector_store.set
    /\ GROQ_API_KEY
    /\ event.status = 400

\* C7: whenever no index is set, a query returns the 'no index' client error, whatever
\* the question and the LLM credential, without retrieval or LLM call; the response is
\* the same after a reset as in a fresh process.
C7_NoIndexIsClientError ==
    (event.op = "question" /\ ~main_vector_store.set)
        => event = [Response("question", 0, 400, "no_index", "") EXCEPT
                        !.question = event.question]

\* a non-blank question was answered 'no index' without credential, the persisted
\* index having been loaded at startup and removed since
C7_Witness ==
    /\ event.op = "question"
    /\ event.status = 400
    /\ event.question = <<"w", "h", "y">>
    /\ ~GROQ_API_KEY
    /\ ~main_vector_store.set
    /\ utils_vector_store.set
    /\ index_file.state = "absent"

\* C8: reset leaves the handle that ingest and query consult unset and the persisted
\* directory existing, whether the directory was absent, was deleted, or could not be
\* deleted; in the last case the caller gets a server error carrying the cause.
C8_ResetLeavesUnsetAndDirectory ==
    [][event'.op = "reset" =>
          /\ ~main_vector_store'.set
          /\ index_dir_exists'
          /\ event'.status \in {200, 500}
          /\ ~index_dir_exists => event'.status = 200
          /\ event'.status = 200 => index_file'.state = "absent"
          /\ event'.status = 500 => (index_dir_exists /\ event'.cause = "rmtree_error")]_vars

\* a reset whose deletion failed: server error with the cause, handle unset, directory
\* there with the index still in it
C8_Witness ==
    /\ event.op = "reset"
    /\ event.status = 500
    /\ event.cause = "rmtree_error"
    /\ ~main_vector_store.set
    /\ index_dir_exists
    /\ index_file.state = "ok"

\* the file passes the filename tests and its save, extraction or chunking raises
IsFailing(f) ==
    /\ HasPdfExtension(f.filename)
    /\ (~f.save_ok \/ ExtractionFails(f) \/ ~f.split_ok)

\* the file passes the filename tests and its save or chunking raises, or its
\* extraction raises before any text was read
IsFailingTextless(f) ==
    /\ HasPdfExtension(f.filename)
    /\ (~f.save_ok \/ ~f.split_ok \/ (ExtractionFails(f) /\ extract_text_from_pdf(f) = <<>>))

\* C10 (as claimed): a file whose save, extraction or chunking fails is skipped and the
\* others are processed: the request is answered, with the counts, as the remaining
\* files alone would be, and does not fail as a whole.
C10_FailingFilesSkipped ==
    [][\A h \in Handlers :
          ReturnsFromLoop(h) =>
             LET rest == SelectSeq(locals[h].files, LAMBDA f : ~IsFailing(f)) IN
             /\ event'.status = ExpectedStatus(rest)
             /\ event'.status = 200 =>
                   /\ event'.documents_indexed = CountIndexed(ValidFiles(rest))
                   /\ event'.total_chunks_generated = SumChunks(ValidFiles(rest))]_vars

\* C10 (amended): a file whose save or chunking raises, or whose extraction raises before
\* any text was read, is skipped and the others are processed: the request is answered,
\* with the counts, as the remaining files alone would be when a file remains, and with
\* the 400 client error when none does; a file whose extraction raises after some text
\* was read is not skipped but indexed with that text.
C10_TextlessFailuresSkipped ==
    [][\A h \in Handlers :
          ReturnsFromLoop(h) =>
             LET rest == SelectSeq(locals[h].files, LAMBDA f : ~IsFailingTextless(f)) IN
             /\ event'.status = IF rest = <<>> THEN 400 ELSE ExpectedStatus(rest)
             /\ event'.status = 200 =>
                   /\ event'.documents_indexed = CountIndexed(ValidFiles(rest))
                   /\ event'.total_chunks_generated = SumChunks(ValidFiles(rest))
                   /\ \A k \in DOMAIN locals[h].files :
                         LET f == locals[h].files[k] IN
                         (IsFailing(f) /\ ~IsFailingTextless(f)) =>
                            \E d \in DOMAIN main_vector_store'.docs :
                               main_vector_store'.docs[d].source_filename = f.filename]_vars

\* a request with a file whose save raises before a good one has been through the loop:
\* the good one is counted
C10_Witness ==
    /\ pc[1] = "loop"
    /\ locals[1].files = <<SaveFails, GoodLong>>
    /\ locals[1].i = 3
    /\ locals[1].processed_files_count = 1
    /\ locals[1].total_chunks_generated_for_session = Len(FileChunks(GoodLong))

\* C11: the scratch file of an uploaded file is removed before the next file is processed,
\* on every path of the iteration (indexed, no text, no chunks, exception): whenever a
\* request is about to start a loop iteration, and when it returns, the scratch directory
\* holds no file written by that request.
C11_ScratchFilesRemoved ==
    [][\A h \in Handlers :
          /\ pc'[h] = "loop" => locals'[h].written \cap uploaded_pdfs' = {}
          /\ Returns(h) =>
                \A k \in DOMAIN locals[h].files :
                   locals[h].files[k].filename \notin uploaded_pdfs']_vars

\* a request has been through the loop with a file whose extraction raises and a file
\* that was indexed, and the scratch directory is empty
C11_Witness ==
    /\ pc[1] = "loop"
    /\ locals[1].files = <<Unreadable, GoodLong>>
    /\ locals[1].i = 3
    /\ locals[1].written = {Unreadable.filename, GoodLong.filename}
    /\ locals[1].processed_files_count = 1
    /\ uploaded_pdfs = {}

\* C12: two ingestion requests with disjoint files run concurrently against the index
\* that starts unset: in every interleaving of their segments, a request that returns
\* success leaves the in-memory index as it found it extended by exactly its
\* total_chunks_generated chunks, so that no update is lost, neither request replaces
\* the index the other created, and the index ends with the sum of the two totals.
C12_NoUpdateLost ==
    [][\A h \in Handlers :
          (Returns(h) /\ event'.status = 200) =>
             LET n == Len(main_vector_store.docs) IN
             /\ Len(main_vector_store'.docs) = n + event'.total_chunks_generated
             /\ SubSeq(main_vector_store'.docs, 1, n) = main_vector_store.docs
             /\ main_vector_store.set => main_vector_store'.set]_vars

\* handler 1 has created the index and returned while handler 2, which went through its
\* loop when the index was unset, is suspended before its own index update
C12_Witness ==
    /\ event.op = "upload"
    /\ event.h = 1
    /\ event.status = 200
    /\ event.total_chunks_generated = Len(FileChunks(GoodLong))
    /\ main_vector_store = FAISS(FileChunks(GoodLong))
    /\ pc[2] = "loop"
    /\ locals[2].files = <<Truncated>>
    /\ locals[2].i = 2
    /\ locals[2].all_langchain_documents = FileChunks(Truncated)

\* C13: the counts of an ingestion depend only on the files of the request, not on the
\* state of the index: in every state, before or after a reset and whatever the index
\* holds, a request gets the error or non-error outcome, the documents_indexed and the
\* total_chunks_generated that its files determine, so that ingesting the same input
\* again after a reset returns what the first ingestion returned.
C13_CountsDependOnFilesOnly ==
    [][\A h \in Handlers :
          /\ ReturnsFromLoop(h) =>
                LET valid == ValidFiles(locals[h].files) IN
                /\ event'.status = ExpectedStatus(locals[h].files)
                /\ event'.documents_indexed = CountIndexed(valid)
                /\ event'.total_chunks_generated = SumChunks(valid)
          /\ (Returns(h) /\ ~embedding_model) => event'.status = 500]_vars

\* the index loaded at startup is gone from the disk, so a reset has been served since,
\* and the ingestion after it has returned the counts of its file
C13_Witness ==
    /\ event.op = "upload"
    /\ event.status = 200
    /\ event.documents_indexed = 1
    /\ event.total_chunks_generated = Len(FileChunks(GoodLong))
    /\ main_vector_store = FAISS(FileChunks(GoodLong))
    /\ utils_vector_store.set
    /\ index_dir_exists
    /\ index_file.state = "absent"

\* C14: ingestion only appends to the in-memory index. A successful ingestion creates the
\* index from the chunks of the request when the handle is unset and adds them otherwise:
\* the index grows by exactly total_chunks_generated chunks and keeps every chunk it
\* held, in place. An ingestion that ends in a client error or in the empty result, and
\* every query, leave the in-memory index and the persisted directory unchanged.
C14_IngestionAppendsOnly ==
    [][/\ \A h \in Handlers :
             Returns(h) =>
                LET n == Len(main_vector_store.docs) IN
                /\ (event'.status = 200 /\ event'.documents_indexed > 0) =>
                      /\ main_vector_store'.set
                      /\ Len(main_vector_store'.docs) = n + event'.total_chunks_generated
                      /\ SubSeq(main_vector_store'.docs, 1, n) = main_vector_store.docs
                      /\ SubSeq(main_vector_store'.docs, n + 1, Len(main_vector_store'.docs))
                            = locals[h].all_langchain_documents
                /\ (IsClientError(event'.status) \/ event'.detail = "nothing_suitable") =>
                      UNCHANGED <<main_vector_store, index_dir_exists, index_file>>
       /\ event'.op = "question" =>
             UNCHANGED <<main_vector_store, index_dir_exists, index_file>>]_vars

\* the same file has been ingested twice: the second ingestion has added its chunk after
\* the chunk the index held
C14_Witness ==
    /\ event.op = "upload"
    /\ event.status = 200
    /\ event.total_chunks_generated = Len(FileChunks(Truncated))
    /\ main_vector_store = FAISS(FileChunks(Truncated) \o FileChunks(Truncated))

====
